---- MODULE Spec2Model ----
(***************************************************************************)
(* Configuration resolution of rome-tools:                                 *)
(*   crates/rome_service/src/configuration/mod.rs                          *)
(*       load_config, create_config, (de)serialize_set_of_strings          *)
(*   crates/rome_cli/src/parse_arguments.rs                                *)
(*       apply_format_settings_from_cli, apply_files_settings_from_cli     *)
(***************************************************************************)
EXTENDS Integers, Sequences, FiniteSets, TLC

(***************************************************************************)
(* Bounds                                                                  *)
(***************************************************************************)
\* Deepest directory of the modelled chain. A directory is identified by
\* the number of components of its path: 0 is the empty path
\* (PathBuf::new()), 1 is the root "/", 2 is "/a", 3 is "/a/b", ...
MaxDepth == 3

\* Largest value given to --indent-size.
MaxIndentSize == 4

\* Longest list of ignore patterns.
MaxIgnore == 3

(***************************************************************************)
(* Option<T>                                                               *)
(***************************************************************************)
None == [tag |-> "None"]

Some(v) == [tag |-> "Some", value |-> v]

IsSome(o) == o.tag = "Some"

\* Result::Ok
Ok(v) == [tag |-> "Ok", value |-> v]

(***************************************************************************)
(* State                                                                   *)
(***************************************************************************)
VARIABLES
    \* ---- the file system seen by load_config ----
    fs,                       \* directory -> outcome of opening <dir>/<config name> for reading
    is_dir,                   \* directory -> std::path::Path::is_dir
    working_directory,        \* FileSystem::working_directory(): Option<PathBuf>
    \* ---- load_config ----
    base_path,                \* the ConfigurationBasePath argument
    configuration_directory,  \* local of load_config
    configuration_path,       \* local of load_config
    from_parent,              \* local of load_config
    load_pc,                  \* "idle" | "loop" | "done"
    load_result,              \* the LoadConfig value returned
    opened,                   \* the paths handed to open_with_options, in order
    \* ---- the CLI override merger ----
    configuration,            \* the Configuration being merged into
    prior_configuration,      \* the Configuration as it was before the run
    args,                     \* session.args: flag -> Option<text>, what is left in the stream
    argv,                     \* the command line as it was given
    cli_pc,                   \* "idle" | "format" | "files" (the function that ran)
    cli_result,               \* the Result<(), CliDiagnostic> returned
    \* ---- create_config ----
    config_file,              \* the file at the configuration-file-name path
    schema_installed,         \* ./node_modules/rome/configuration_schema.json opens for reading
    create_configuration,     \* the Configuration argument of the last call
    create_result,            \* the Result<(), WorkspaceError> of the last call
    \* ---- the files.ignore codec ----
    files_configuration,      \* the FilesConfiguration that is serialized
    wire,                     \* the serialized form
    deserialized,             \* the result of deserializing `wire`
    codec_pc                  \* "value" | "serialized" | "round_trip" | "written" | "read"

load_vars == <<fs, is_dir, working_directory, base_path, configuration_directory,
               configuration_path, from_parent, load_pc, load_result, opened>>

cli_vars == <<configuration, prior_configuration, args, argv, cli_pc, cli_result>>

create_vars == <<config_file, schema_installed, create_configuration, create_result>>

codec_vars == <<files_configuration, wire, deserialized, codec_pc>>

vars == <<load_vars, cli_vars, create_vars, codec_vars>>

(***************************************************************************)
(* Paths                                                                   *)
(***************************************************************************)
Dirs == 0..MaxDepth

\* file_system.config_name()
config_name == "rome.json"

\* PathBuf::join(file name)
Join(dir, name) == [dir |-> dir, name |-> name]

\* Path::parent(): the empty path and the root have none.
Parent(dir) == IF dir <= 1 THEN None ELSE Some(dir - 1)

\* The outcomes of FileSystem::open_with_options(path, read) followed by
\* File::read_to_string: the file opens and reads, the file opens and the read
\* fails, or the open fails with an io::ErrorKind.
OpenOutcomes == {"File", "Unreadable", "NotFound", "PermissionDenied"}

OpenOk(outcome) == outcome \in {"File", "Unreadable"}

(***************************************************************************)
(* ConfigurationBasePath                                                   *)
(***************************************************************************)
BasePathNone == [kind |-> "None"]

Lsp(path) == [kind |-> "Lsp", path |-> path]

FromUser(path) == [kind |-> "FromUser", path |-> path]

BasePaths == {BasePathNone} \cup {Lsp(d) : d \in Dirs} \cup {FromUser(d) : d \in Dirs}

\* A variant that matches the wrong variant of the enum.
is_from_user_MatchesLsp(bp) == bp.kind = "Lsp"

is_from_user(bp) == bp.kind = "FromUser"

(***************************************************************************)
(* load_config                                                             *)
(***************************************************************************)
\* WorkspaceError::cant_read_file(path)
cant_read_file(path) == [tag |-> "Err", error |-> "CannotReadFile", path |-> path]

\* Ok(Some(deserialized)): the Deserialized<Configuration> of the file at `path`
LoadOkSome(path, parent) == [tag |-> "Ok", value |-> Some([file_path |-> path, from_parent |-> parent])]

LoadOkNone == [tag |-> "Ok", value |-> None]

Pending == [tag |-> "Pending"]

\* The starting directory: lines 177-185.
StartDirectory(bp) ==
    IF bp.kind \in {"Lsp", "FromUser"}
    THEN bp.path
    ELSE IF IsSome(working_directory) THEN working_directory.value ELSE 0

\* A variant that gives up one directory below the root.
ParentDirectory_StopsBelowRoot(dir) ==
    IF dir <= 2
    THEN None
    ELSE IF is_dir[dir - 1] THEN Some(dir - 1) ELSE None

\* A variant that also ascends from the root, to the empty path.
ParentDirectory_PastRoot(dir) ==
    IF dir = 1
    THEN Some(0)
    ELSE IF dir >= 2 /\ is_dir[dir - 1] THEN Some(dir - 1) ELSE None

\* lines 218-226: the parent of the directory, when it has one that is a directory
ParentDirectory(dir) ==
    IF IsSome(Parent(dir))
    THEN IF is_dir[Parent(dir).value] THEN Some(Parent(dir).value) ELSE None
    ELSE None

\* A variant that tolerates every kind of error unless the path is from the user.
TerminalResult_IgnoresKind(should_error, err_kind, path) ==
    IF should_error
    THEN cant_read_file(path)
    ELSE LoadOkNone

\* A variant with the comparison of the error kind inverted.
TerminalResult_InvertedKind(should_error, err_kind, path) ==
    IF should_error \/ err_kind = "NotFound"
    THEN cant_read_file(path)
    ELSE LoadOkNone

\* lines 237-248: the result when the search ends on a failed open
TerminalResult(should_error, err_kind, path) ==
    IF should_error \/ err_kind # "NotFound"
    THEN cant_read_file(path)
    ELSE LoadOkNone

\* load_config is called: lines 171-193
LoadConfig(bp) ==
    /\ load_pc = "idle"
    /\ base_path' = bp
    /\ configuration_directory' = StartDirectory(bp)
    /\ configuration_path' = Join(StartDirectory(bp), config_name)
    /\ from_parent' = FALSE
    /\ load_pc' = "loop"
    /\ UNCHANGED <<fs, is_dir, working_directory, load_result, opened>>
    /\ UNCHANGED <<cli_vars, create_vars, codec_vars>>

\* One iteration of the loop: lines 194-251
OpenAttempt ==
    /\ load_pc = "loop"
    /\ opened' = Append(opened, configuration_path)
    /\ LET file == fs[configuration_path.dir]
           should_error == is_from_user(base_path)
       IN  IF OpenOk(file)
           THEN /\ load_result' = IF file = "Unreadable"
                                  THEN cant_read_file(configuration_path)
                                  ELSE LoadOkSome(configuration_path, from_parent)
                /\ load_pc' = "done"
                /\ UNCHANGED <<configuration_directory, configuration_path, from_parent>>
           ELSE IF ~is_from_user(base_path) /\ IsSome(ParentDirectory(configuration_directory))
                THEN /\ configuration_directory' = ParentDirectory(configuration_directory).value
                     /\ configuration_path' = Join(ParentDirectory(configuration_directory).value, config_name)
                     /\ from_parent' = TRUE
                     /\ UNCHANGED <<load_pc, load_result>>
                ELSE /\ load_result' = TerminalResult(should_error, file, configuration_path)
                     /\ load_pc' = "done"
                     /\ UNCHANGED <<configuration_directory, configuration_path, from_parent>>
    /\ UNCHANGED <<fs, is_dir, working_directory, base_path>>
    /\ UNCHANGED <<cli_vars, create_vars, codec_vars>>

LoadStart ==
    /\ fs \in [Dirs -> OpenOutcomes]
    /\ is_dir \in [1..(MaxDepth - 1) -> BOOLEAN]
    /\ working_directory \in {None} \cup {Some(d) : d \in 1..MaxDepth}
    /\ base_path = BasePathNone
    /\ configuration_directory = 0
    /\ configuration_path = Join(0, config_name)
    /\ from_parent = FALSE
    /\ load_pc = "idle"
    /\ load_result = Pending
    /\ opened = <<>>


(***************************************************************************)
(* The settings value model                                                *)
(***************************************************************************)
\* IndentStyle::DEFAULT_SPACES, the width embedded in IndentStyle::Space by
\* its FromStr
DefaultSpaces == 2

\* FormatterConfiguration::default()
DefaultFormatterConfiguration ==
    [indent_style |-> "Tab", indent_size |-> 2, line_width |-> 80]

\* JavascriptFormatter::default()
DefaultJavascriptFormatter ==
    [quote_properties |-> "asNeeded", quote_style |-> "double",
     trailing_comma |-> "all", semicolons |-> "always"]

\* JavascriptConfiguration::default()
DefaultJavascriptConfiguration == [formatter |-> None]

\* FilesConfiguration::default(): #[derive(Default)], line 116
DefaultFilesConfiguration == [max_size |-> None, ignore |-> None]

\* A variant that stores the default over the record that is there.
get_or_insert_with_Overwrites(option, default) == Some(default)

\* Option::get_or_insert_with: the option afterwards
get_or_insert_with(option, default) == IF IsSome(option) THEN option ELSE Some(default)

(***************************************************************************)
(* The ordered-set codec of files.ignore                                   *)
(***************************************************************************)
\* JSON values
JNull == [json |-> "null"]

JNumber(n) == [json |-> "number", n |-> n]

JArray(items) == [json |-> "array", items |-> items]

\* A key of a JSON object: left out, or there with a value
Missing == [present |-> FALSE]

Present(v) == [present |-> TRUE, value |-> v]

Err(message) == [tag |-> "Err", message |-> message]

\* A variant that puts a new element in front of the others.
IndexSetInsert_Front(index_set, value) ==
    IF \E i \in 1..Len(index_set) : index_set[i] = value
    THEN index_set
    ELSE <<value>> \o index_set

\* IndexSet::insert: an IndexSet is the sequence of its elements in
\* insertion order; an element that is in the set already is left where it is.
IndexSetInsert(index_set, value) ==
    IF \E i \in 1..Len(index_set) : index_set[i] = value
    THEN index_set
    ELSE Append(index_set, value)

\* lines 328-339: IndexVisitor::visit_seq
RECURSIVE visit_seq(_, _)
visit_seq(seq, index_set) ==
    IF seq = <<>>
    THEN Ok(Some(index_set))
    ELSE visit_seq(Tail(seq), IndexSetInsert(index_set, Head(seq)))

\* lines 302-343: deserializer.deserialize_seq(IndexVisitor::new()); the
\* visitor takes a sequence and nothing else
deserialize_set_of_strings(json) ==
    IF json.json = "array"
    THEN visit_seq(json.items, <<>>)
    ELSE Err("expecting a sequence")

\* lines 345-363
serialize_set_of_strings(set_of_strings) ==
    IF IsSome(set_of_strings)
    THEN JArray([i \in 1..Len(set_of_strings.value) |-> set_of_strings.value[i]])
    ELSE JNull

\* lines 116-132: #[derive(Serialize)] of FilesConfiguration; ignore is
\* skipped when it is None, max_size is not
SerializeFilesConfiguration(files) ==
    [maxSize |-> Present(IF IsSome(files.max_size) THEN JNumber(files.max_size.value) ELSE JNull),
     ignore |-> IF files.ignore = None
                THEN Missing
                ELSE Present(serialize_set_of_strings(files.ignore))]

\* Option<NonZeroU64> of max_size
DeserializeMaxSize(json) ==
    IF json.json = "null" THEN Ok(None)
    ELSE IF json.json = "number" /\ json.n # 0 THEN Ok(Some(json.n))
    ELSE Err("expecting a nonzero integer")

\* lines 116-132: #[derive(Deserialize)] with #[serde(default)]: a key that
\* is left out takes the field of FilesConfiguration::default()
DeserializeFilesConfiguration(object) ==
    LET max_size == IF object.maxSize.present
                    THEN DeserializeMaxSize(object.maxSize.value)
                    ELSE Ok(DefaultFilesConfiguration.max_size)
        ignore == IF object.ignore.present
                  THEN deserialize_set_of_strings(object.ignore.value)
                  ELSE Ok(DefaultFilesConfiguration.ignore)
    IN  IF max_size.tag = "Err" THEN max_size
        ELSE IF ignore.tag = "Err" THEN ignore
        ELSE Ok([max_size |-> max_size.value, ignore |-> ignore.value])

Patterns == {"*.min.js", "dist", "node_modules"}

\* The lists of at most n patterns
RECURSIVE PatternLists(_)
PatternLists(n) ==
    IF n = 0
    THEN {<<>>}
    ELSE PatternLists(n - 1)
            \cup {Append(l, p) : l \in {m \in PatternLists(n - 1) : Len(m) = n - 1}, p \in Patterns}

\* The IndexSets of at most n patterns: the lists without a repeated element
IndexSets(n) ==
    {l \in PatternLists(n) : \A i, j \in 1..Len(l) : i # j => l[i] # l[j]}

FilesConfigurations ==
    [max_size : {None, Some(1)},
     ignore : {None} \cup {Some(l) : l \in IndexSets(MaxIgnore)}]

\* What a hand-written "files" object holds
WrittenObjects ==
    [maxSize : {Missing, Present(JNull), Present(JNumber(0))},
     ignore : {Missing, Present(JNull)} \cup {Present(JArray(l)) : l \in PatternLists(MaxIgnore)}]

\* serde_json::to_value of a FilesConfiguration
SerializeFiles ==
    /\ codec_pc = "value"
    /\ wire' = SerializeFilesConfiguration(files_configuration)
    /\ codec_pc' = "serialized"
    /\ UNCHANGED <<files_configuration, deserialized>>
    /\ UNCHANGED <<load_vars, cli_vars, create_vars>>

\* serde_json::from_value::<FilesConfiguration>
DeserializeFiles ==
    /\ codec_pc \in {"serialized", "written"}
    /\ deserialized' = DeserializeFilesConfiguration(wire)
    /\ codec_pc' = IF codec_pc = "serialized" THEN "round_trip" ELSE "read"
    /\ UNCHANGED <<files_configuration, wire>>
    /\ UNCHANGED <<load_vars, cli_vars, create_vars>>

CodecStart ==
    /\ deserialized = Pending
    /\ \/ /\ codec_pc = "value"
          /\ files_configuration \in FilesConfigurations
          /\ wire = None
       \/ /\ codec_pc = "written"
          /\ files_configuration = None
          /\ wire \in WrittenObjects

CodecUnused ==
    /\ files_configuration = None
    /\ wire = None
    /\ deserialized = Pending
    /\ codec_pc = "unused"

(***************************************************************************)
(* The argument stream                                                     *)
(***************************************************************************)
FormatFlags == <<"--indent-size", "--indent-style", "--line-width", "--quote-properties",
                 "--quote-style", "--trailing-comma", "--semicolons">>

Flags == {FormatFlags[i] : i \in 1..Len(FormatFlags)} \cup {"--files-max-size"}

ParseFailed == [tag |-> "Err"]

Decimal == <<"1", "2", "3", "4", "5", "6", "7", "8", "9">>

\* <u8 as FromStr>::from_str, on the texts of the model
ParseIndentSize(text) ==
    IF \E n \in 1..Len(Decimal) : Decimal[n] = text
    THEN Ok(CHOOSE n \in 1..Len(Decimal) : Decimal[n] = text)
    ELSE ParseFailed

\* <IndentStyle as FromStr>::from_str
ParseIndentStyle(text) ==
    IF text = "tab" THEN Ok([style |-> "Tab"])
    ELSE IF text = "space" THEN Ok([style |-> "Space", default_size |-> DefaultSpaces])
    ELSE ParseFailed

\* <LineWidth as FromStr>::from_str
ParseLineWidth(text) == IF text = "120" THEN Ok(120) ELSE ParseFailed

\* <QuoteProperties as FromStr>::from_str
ParseQuoteProperties(text) ==
    IF text = "as-needed" THEN Ok("asNeeded")
    ELSE IF text = "preserve" THEN Ok("preserve")
    ELSE ParseFailed

\* <QuoteStyle as FromStr>::from_str
ParseQuoteStyle(text) ==
    IF text \in {"double", "single"} THEN Ok(text) ELSE ParseFailed

\* <TrailingComma as FromStr>::from_str
ParseTrailingComma(text) ==
    IF text \in {"all", "es5", "none"} THEN Ok(text) ELSE ParseFailed

\* <Semicolons as FromStr>::from_str
ParseSemicolons(text) ==
    IF text = "always" THEN Ok("always")
    ELSE IF text = "as-needed" THEN Ok("asNeeded")
    ELSE ParseFailed

\* <NonZeroU64 as FromStr>::from_str: zero does not parse
ParseNonZeroU64(text) ==
    IF \E n \in 1..Len(Decimal) : Decimal[n] = text
    THEN Ok(CHOOSE n \in 1..Len(Decimal) : Decimal[n] = text)
    ELSE ParseFailed

\* <T as FromStr>::from_str for the type T the caller asks for
FromStr(type, text) ==
    CASE type = "u8" -> ParseIndentSize(text)
      [] type = "IndentStyle" -> ParseIndentStyle(text)
      [] type = "LineWidth" -> ParseLineWidth(text)
      [] type = "QuoteProperties" -> ParseQuoteProperties(text)
      [] type = "QuoteStyle" -> ParseQuoteStyle(text)
      [] type = "TrailingComma" -> ParseTrailingComma(text)
      [] type = "Semicolons" -> ParseSemicolons(text)
      [] type = "NonZeroU64" -> ParseNonZeroU64(text)

\* A variant that takes a malformed value for an absent flag and goes on.
opt_value_from_str_Lenient(stream, flag, type) ==
    IF ~IsSome(stream[flag])
    THEN [tag |-> "Ok", value |-> None, args |-> stream]
    ELSE IF FromStr(type, stream[flag].value).tag = "Ok"
         THEN [tag |-> "Ok", value |-> Some(FromStr(type, stream[flag].value).value),
               args |-> [stream EXCEPT ![flag] = None]]
         ELSE [tag |-> "Ok", value |-> None, args |-> stream]

\* pico_args::Arguments::opt_value_from_str: an absent flag is Ok(None); a
\* flag whose value parses is removed from the stream with its value; a flag
\* whose value does not parse is an error and stays in the stream.
opt_value_from_str(stream, flag, type) ==
    IF ~IsSome(stream[flag])
    THEN [tag |-> "Ok", value |-> None, args |-> stream]
    ELSE IF FromStr(type, stream[flag].value).tag = "Ok"
         THEN [tag |-> "Ok", value |-> Some(FromStr(type, stream[flag].value).value),
               args |-> [stream EXCEPT ![flag] = None]]
         ELSE [tag |-> "Err", args |-> stream]

\* CliDiagnostic::parse_error(flag, source)
parse_error(flag) == [tag |-> "Err", error |-> "ParseError", flag |-> flag]

OkUnit == [tag |-> "Ok"]

(***************************************************************************)
(* apply_format_settings_from_cli                                          *)
(***************************************************************************)
\* What the function leaves behind when it returns.
Returned(config, stream, result) ==
    [configuration |-> config, args |-> stream, result |-> result]

\* A variant that takes the size flag for the width whether or not a style is given.
ApplyIndentStyle_SizeAlone(formatter, indent_style, size) ==
    IF IsSome(indent_style) /\ indent_style.value.style = "Tab"
    THEN [formatter EXCEPT !.indent_style = "Tab"]
    ELSE IF IsSome(indent_style)
         THEN [formatter EXCEPT
                  !.indent_style = "Space",
                  !.indent_size = IF IsSome(size) THEN size.value
                                  ELSE indent_style.value.default_size]
         ELSE IF IsSome(size) THEN [formatter EXCEPT !.indent_size = size.value]
              ELSE formatter

\* lines 33-42: the match on indent_style
ApplyIndentStyle(formatter, indent_style, size) ==
    IF IsSome(indent_style) /\ indent_style.value.style = "Tab"
    THEN [formatter EXCEPT !.indent_style = "Tab"]
    ELSE IF IsSome(indent_style)
         THEN [formatter EXCEPT
                  !.indent_style = "Space",
                  !.indent_size = IF IsSome(size) THEN size.value
                                  ELSE indent_style.value.default_size]
         ELSE formatter

\* lines 44-46
ApplyLineWidth(formatter, line_width) ==
    IF IsSome(line_width) THEN [formatter EXCEPT !.line_width = line_width.value] ELSE formatter

\* lines 75-89: the four overrides of the JavaScript formatter
ApplyJavascriptFormatter(jsf, quote_properties, quote_style, trailing_comma, semicolons) ==
    [quote_properties |-> IF IsSome(quote_properties) THEN quote_properties.value
                          ELSE jsf.quote_properties,
     quote_style |-> IF IsSome(quote_style) THEN quote_style.value ELSE jsf.quote_style,
     trailing_comma |-> IF IsSome(trailing_comma) THEN trailing_comma.value
                        ELSE jsf.trailing_comma,
     semicolons |-> IF IsSome(semicolons) THEN semicolons.value ELSE jsf.semicolons]

\* lines 68-73: javascript and javascript.formatter, created when missing
JavascriptWithFormatter(javascript) ==
    LET js == get_or_insert_with(javascript, DefaultJavascriptConfiguration).value
    IN  [js EXCEPT !.formatter = get_or_insert_with(js.formatter, DefaultJavascriptFormatter)]

\* lines 48-91: the JavaScript flags, after the formatter block was written
apply_javascript_flags(config, stream) ==
    LET quote_properties == opt_value_from_str(stream, "--quote-properties", "QuoteProperties")
    IN  IF quote_properties.tag = "Err"
        THEN Returned(config, quote_properties.args, parse_error("--quote-properties"))
        ELSE
    LET quote_style == opt_value_from_str(quote_properties.args, "--quote-style", "QuoteStyle")
    IN  IF quote_style.tag = "Err"
        THEN Returned(config, quote_style.args, parse_error("--quote-style"))
        ELSE
    LET trailing_comma == opt_value_from_str(quote_style.args, "--trailing-comma", "TrailingComma")
    IN  IF trailing_comma.tag = "Err"
        THEN Returned(config, trailing_comma.args, parse_error("--trailing-comma"))
        ELSE
    LET semicolons == opt_value_from_str(trailing_comma.args, "--semicolons", "Semicolons")
    IN  IF semicolons.tag = "Err"
        THEN Returned(config, semicolons.args, parse_error("--semicolons"))
        ELSE
    LET javascript == JavascriptWithFormatter(config.javascript)
        javascript_formatter ==
            ApplyJavascriptFormatter(javascript.formatter.value, quote_properties.value,
                                     quote_style.value, trailing_comma.value, semicolons.value)
    IN  Returned([config EXCEPT !.javascript =
                      Some([javascript EXCEPT !.formatter = Some(javascript_formatter)])],
                 semicolons.args, OkUnit)

\* lines 10-92
apply_format_settings_from_cli(stream, config) ==
    LET formatter == get_or_insert_with(config.formatter, DefaultFormatterConfiguration)
        with_formatter == [config EXCEPT !.formatter = formatter]
        size == opt_value_from_str(stream, "--indent-size", "u8")
    IN  IF size.tag = "Err"
        THEN Returned(with_formatter, size.args, parse_error("--indent-size"))
        ELSE
    LET indent_style == opt_value_from_str(size.args, "--indent-style", "IndentStyle")
    IN  IF indent_style.tag = "Err"
        THEN Returned(with_formatter, indent_style.args, parse_error("--indent-style"))
        ELSE
    LET line_width == opt_value_from_str(indent_style.args, "--line-width", "LineWidth")
    IN  IF line_width.tag = "Err"
        THEN Returned(with_formatter, line_width.args, parse_error("--line-width"))
        ELSE
    LET written == ApplyLineWidth(
                       ApplyIndentStyle(formatter.value, indent_style.value, size.value),
                       line_width.value)
    IN  apply_javascript_flags([config EXCEPT !.formatter = Some(written)], line_width.args)

\* lines 94-109
apply_files_settings_from_cli(stream, config) ==
    LET files_max_size == opt_value_from_str(stream, "--files-max-size", "NonZeroU64")
    IN  IF files_max_size.tag = "Err"
        THEN Returned(config, files_max_size.args, parse_error("--files-max-size"))
        ELSE IF IsSome(files_max_size.value)
             THEN LET files == get_or_insert_with(config.files, DefaultFilesConfiguration).value
                  IN  Returned([config EXCEPT !.files =
                                    Some([files EXCEPT !.max_size = Some(files_max_size.value.value)])],
                               files_max_size.args, OkUnit)
             ELSE Returned(config, files_max_size.args, OkUnit)

ApplyFormatSettingsFromCli ==
    /\ cli_pc = "idle"
    /\ LET r == apply_format_settings_from_cli(args, configuration)
       IN  /\ configuration' = r.configuration
           /\ args' = r.args
           /\ cli_result' = r.result
    /\ cli_pc' = "format"
    /\ UNCHANGED <<prior_configuration, argv>>
    /\ UNCHANGED <<load_vars, create_vars, codec_vars>>

ApplyFilesSettingsFromCli ==
    /\ cli_pc = "idle"
    /\ LET r == apply_files_settings_from_cli(args, configuration)
       IN  /\ configuration' = r.configuration
           /\ args' = r.args
           /\ cli_result' = r.result
    /\ cli_pc' = "files"
    /\ UNCHANGED <<prior_configuration, argv>>
    /\ UNCHANGED <<load_vars, create_vars, codec_vars>>

\* The configurations a run starts from: each sub-record missing or present.
Configurations ==
    [schema : {None},
     files : {None, Some([max_size |-> Some(7), ignore |-> None])},
     formatter : {None, Some([indent_style |-> "Space", indent_size |-> 8, line_width |-> 100])},
     javascript : {None, Some([formatter |-> None]),
                   Some([formatter |-> Some([quote_properties |-> "preserve",
                                             quote_style |-> "single",
                                             trailing_comma |-> "none",
                                             semicolons |-> "asNeeded"])])}]

\* What a flag is on the command line: absent, or given with one of `texts`.
Given(texts) == {None} \cup {Some(t) : t \in texts}

\* The command lines of the model; "bogus" parses as nothing, and "0" is no
\* NonZeroU64.
CommandLines ==
    {("--indent-size" :> r.indent_size) @@ ("--indent-style" :> r.indent_style)
       @@ ("--line-width" :> r.line_width) @@ ("--quote-properties" :> r.quote_properties)
       @@ ("--quote-style" :> r.quote_style) @@ ("--trailing-comma" :> r.trailing_comma)
       @@ ("--semicolons" :> r.semicolons) @@ ("--files-max-size" :> r.files_max_size) :
     r \in [indent_size : Given({Decimal[n] : n \in 1..MaxIndentSize} \cup {"bogus"}),
            indent_style : Given({"tab", "space", "bogus"}),
            line_width : Given({"120", "bogus"}),
            quote_properties : Given({"as-needed", "bogus"}),
            quote_style : Given({"double", "bogus"}),
            trailing_comma : Given({"es5", "bogus"}),
            semicolons : Given({"always", "bogus"}),
            files_max_size : Given({"1", "0"})]}

CliStart ==
    /\ configuration \in Configurations
    /\ prior_configuration = configuration
    /\ argv \in CommandLines
    /\ args = argv
    /\ cli_pc = "idle"
    /\ cli_result = Pending

\* The merger is not running.
CliUnused ==
    /\ configuration = None
    /\ prior_configuration = None
    /\ args = None
    /\ argv = None
    /\ cli_pc = "unused"
    /\ cli_result = Pending

\* load_config is not running.
LoadUnused ==
    /\ fs = None
    /\ is_dir = None
    /\ working_directory = None
    /\ base_path = BasePathNone
    /\ configuration_directory = 0
    /\ configuration_path = Join(0, config_name)
    /\ from_parent = FALSE
    /\ load_pc = "unused"
    /\ load_result = Pending
    /\ opened = <<>>

(***************************************************************************)
(* create_config                                                           *)
(***************************************************************************)
NoFile == [exists |-> FALSE]

File(content) == [exists |-> TRUE, content |-> content]

\* The content of a file that was created and not written
Empty == [bytes |-> "empty"]

\* The print of the formatted JSON document
Code(json) == [bytes |-> "code", document |-> json]

\* Path::new("./node_modules/rome/configuration_schema.json")
schema_path == "./node_modules/rome/configuration_schema.json"

\* FileSystem::open_with_options(path, write + create_new): a file that is
\* there is an AlreadyExists error; `fault` is any other failure of the
\* open.
open_create_new(file, fault) ==
    IF file.exists THEN [tag |-> "Err", kind |-> "AlreadyExists"]
    ELSE IF fault = "open" THEN [tag |-> "Err", kind |-> "PermissionDenied"]
    ELSE [tag |-> "Ok", file |-> File(Empty)]

\* WorkspaceError::Configuration(ConfigurationDiagnostic::...)
ConfigurationError(diagnostic) == [tag |-> "Err", error |-> diagnostic]

\* A variant that reports every failed open as CannotReadFile.
OpenError_AlwaysCannotRead(kind, path) == cant_read_file(path)

\* lines 269-275: the map_err of the open
OpenError(kind, path) ==
    IF kind = "AlreadyExists"
    THEN ConfigurationError("AlreadyExists")
    ELSE cant_read_file(path)

\* lines 284-286: serde_json::to_string_pretty(&configuration); a field that
\* is None is skipped (skip_serializing_if, lines 47-68)
to_string_pretty(config) ==
    [schema |-> IF IsSome(config.schema) THEN Present(config.schema.value) ELSE Missing,
     files |-> IF IsSome(config.files)
               THEN Present(SerializeFilesConfiguration(config.files.value))
               ELSE Missing,
     formatter |-> IF IsSome(config.formatter) THEN Present(config.formatter.value) ELSE Missing,
     javascript |-> IF IsSome(config.javascript)
                    THEN Present([formatter |->
                             IF IsSome(config.javascript.value.formatter)
                             THEN Present(config.javascript.value.formatter.value)
                             ELSE Missing])
                    ELSE Missing]

\* lines 277-282: the schema probe
WithSchema(config) ==
    IF schema_installed THEN [config EXCEPT !.schema = Some(schema_path)] ELSE config

\* lines 284-298: what follows the open; `fault` is the step that fails
WriteConfiguration(config, fault) ==
    IF fault = "serialize"
    THEN [file |-> File(Empty), result |-> ConfigurationError("SerializationError")]
    ELSE IF fault = "format"
    THEN [file |-> File(Empty), result |-> [tag |-> "Err", error |-> "FormatError"]]
    ELSE IF fault = "write"
    THEN [file |-> File(Empty), result |-> cant_read_file(config_name)]
    ELSE [file |-> File(Code(to_string_pretty(WithSchema(config)))), result |-> OkUnit]

Faults == {"none", "open", "serialize", "format", "write"}

\* lines 261-299
CreateConfig(config, fault) ==
    /\ create_configuration' = config
    /\ LET opening == open_create_new(config_file, fault)
       IN  IF opening.tag = "Err"
           THEN /\ create_result' = OpenError(opening.kind, config_name)
                /\ UNCHANGED config_file
           ELSE /\ config_file' = WriteConfiguration(config, fault).file
                /\ create_result' = WriteConfiguration(config, fault).result
    /\ UNCHANGED schema_installed
    /\ UNCHANGED <<load_vars, cli_vars, codec_vars>>

CreateStart ==
    /\ config_file \in {NoFile, File(Empty),
                        File(Code(to_string_pretty(
                            [schema |-> None, files |-> None, formatter |-> None,
                             javascript |-> None])))}
    /\ schema_installed \in BOOLEAN
    /\ create_configuration = None
    /\ create_result = Pending

CreateUnused ==
    /\ config_file = NoFile
    /\ schema_installed = FALSE
    /\ create_configuration = None
    /\ create_result = Pending

(***************************************************************************)
(* Specifications: one per operation                                       *)
(***************************************************************************)
LoadInit == LoadStart /\ CliUnused /\ CreateUnused /\ CodecUnused

LoadNext ==
    \/ \E bp \in BasePaths : LoadConfig(bp)
    \/ OpenAttempt

SpecLoad == LoadInit /\ [][LoadNext]_vars

SpecLoadFair == LoadInit /\ [][LoadNext]_vars /\ WF_vars(OpenAttempt)

CliInit == CliStart /\ LoadUnused /\ CreateUnused /\ CodecUnused

CliNext ==
    \/ ApplyFormatSettingsFromCli
    \/ ApplyFilesSettingsFromCli

SpecCli == CliInit /\ [][CliNext]_vars

CreateInit == CreateStart /\ LoadUnused /\ CliUnused /\ CodecUnused

CreateNext == \E config \in Configurations, fault \in Faults : CreateConfig(config, fault)

SpecCreate == CreateInit /\ [][CreateNext]_vars

CodecInit == CodecStart /\ LoadUnused /\ CliUnused /\ CreateUnused

CodecNext ==
    \/ SerializeFiles
    \/ DeserializeFiles

SpecCodec == CodecInit /\ [][CodecNext]_vars

(***************************************************************************)
(* Properties of load_config                                               *)
(***************************************************************************)
\* The directory the running (or finished) search started from.
Start == StartDirectory(base_path)

\* The candidate path of the starting directory.
StartCandidate == Join(Start, config_name)

\* Every directory strictly between `low` and `high`, and `high` itself,
\* yields 'not found', and every directory from `low` up to the parent of
\* `high` is a directory: `low` is an ancestor that the ascent from `high`
\* can reach in a directory tree.
OnlyAtAncestor(low, high) ==
    /\ 1 <= low /\ low < high
    /\ fs[low] = "File"
    /\ \A d \in (low + 1)..high : fs[d] = "NotFound"
    /\ \A d \in low..(high - 1) : is_dir[d]

\* C1: with base path None, when the configuration file exists only at an
\* ancestor of the working directory (every directory between the working
\* directory and that ancestor yields 'not found'), load_config returns
\* Ok(Some(..)) read from that ancestor's file: neither Ok(None) nor an error.
C1_AncestorFound ==
    (load_pc = "done" /\ base_path = BasePathNone /\ IsSome(working_directory))
        => \A a \in Dirs :
              OnlyAtAncestor(a, working_directory.value)
                  => load_result = LoadOkSome(Join(a, config_name), TRUE)

C1_Witness ==
    /\ load_pc = "done"
    /\ base_path = BasePathNone
    /\ working_directory = Some(3)
    /\ OnlyAtAncestor(1, 3)
    /\ load_result = LoadOkSome(Join(1, config_name), TRUE)
    /\ Len(opened) = 3

\* C2: with base path FromUser(path), load_config opens exactly one
\* candidate, <path>/<config name>, and never ascends; when that open fails
\* for any reason the result is CannotReadFile naming that candidate, even
\* when a configuration file exists one directory up.
C2_FromUserNeverAscends ==
    (load_pc # "idle" /\ base_path.kind = "FromUser")
        => /\ configuration_path = StartCandidate
           /\ \A i \in 1..Len(opened) : i = 1 /\ opened[i] = StartCandidate
           /\ load_pc = "done" => opened = <<StartCandidate>>
           /\ (load_pc = "done" /\ ~OpenOk(fs[base_path.path]))
                  => load_result = cant_read_file(StartCandidate)

C2_Witness ==
    /\ load_pc = "done"
    /\ base_path = FromUser(3)
    /\ fs[3] = "NotFound"
    /\ is_dir[2]
    /\ fs[2] = "File"
    /\ opened = <<Join(3, config_name)>>
    /\ load_result = cant_read_file(Join(3, config_name))

\* The open of the i-th attempt failed with a kind other than 'not found'.
FailedOtherThanNotFound(i) == fs[opened[i].dir] = "PermissionDenied"

\* C3 (as stated): with any base path, an open failure other than 'not
\* found' at any directory of the ascent, also one that still has a parent
\* directory, ends the search at once with CannotReadFile; the search never
\* continues to the parent.
C3_Original_FatalAnywhere ==
    load_pc = "done"
        => \A i \in 1..Len(opened) :
              FailedOtherThanNotFound(i)
                  => i = Len(opened) /\ load_result = cant_read_file(opened[i])

\* C3 (amended): an open failure other than 'not found' is fatal
\* (CannotReadFile naming that candidate, no further open) exactly when the
\* base path is FromUser or the failing directory has no parent directory;
\* with None or Lsp at a directory that has a parent directory the search
\* continues with the parent's candidate.
C3_FatalOnlyWhereAscentEnds ==
    load_pc = "done"
        => \A i \in 1..Len(opened) :
              FailedOtherThanNotFound(i)
                  => IF is_from_user(base_path) \/ ~IsSome(ParentDirectory(opened[i].dir))
                     THEN i = Len(opened) /\ load_result = cant_read_file(opened[i])
                     ELSE /\ i < Len(opened)
                          /\ opened[i + 1] = Join(opened[i].dir - 1, config_name)

C3_Witness ==
    /\ load_pc = "done"
    /\ ~is_from_user(base_path)
    /\ Len(opened) = 2
    /\ FailedOtherThanNotFound(1)
    /\ FailedOtherThanNotFound(2)
    /\ load_result = cant_read_file(opened[2])

\* C4: with base path None or Lsp(path), when every open attempt from the
\* starting directory up to the last directory of the ascent fails with
\* 'not found', load_config returns Ok(None), never an error.
C4_NothingFoundIsOkNone ==
    (load_pc = "done" /\ ~is_from_user(base_path)
        /\ \A i \in 1..Len(opened) : fs[opened[i].dir] = "NotFound")
        => load_result = LoadOkNone

C4_Witness ==
    /\ load_pc = "done"
    /\ base_path.kind \in {"None", "Lsp"}
    /\ Start = 3
    /\ Len(opened) = 3
    /\ \A i \in 1..Len(opened) : fs[opened[i].dir] = "NotFound"
    /\ load_result = LoadOkNone

\* The most open attempts a search from `dir` can make: one per directory
\* from `dir` up to the root (one for the empty path).
MaxAttempts(dir) == IF dir = 0 THEN 1 ELSE dir

C10_Safety ==
    load_pc # "idle" =>
        \* at most depth + 1 attempts
        /\ Len(opened) <= MaxAttempts(Start)
        \* each retry opens the strict parent of the directory before it
        /\ \A i \in 1..Len(opened) : opened[i] = Join(Start - (i - 1), config_name)
        /\ \A i, j \in 1..Len(opened) : i # j => opened[i] # opened[j]
        \* the first successful open ends the search
        /\ \A i \in 1..Len(opened) :
              OpenOk(fs[opened[i].dir]) => i = Len(opened) /\ load_pc = "done"
        \* while the loop runs the next candidate has not been opened yet
        /\ load_pc = "loop" =>
              /\ configuration_directory = Start - Len(opened)
              /\ Len(opened) < MaxAttempts(Start)
        \* the ways the loop ends
        /\ load_pc = "done" =>
              /\ Len(opened) >= 1
              /\ LET last == opened[Len(opened)]
                 IN  IF fs[last.dir] = "File"
                     THEN load_result = LoadOkSome(last, Len(opened) > 1)
                     ELSE /\ load_result \in {LoadOkNone, cant_read_file(last)}
                          /\ ~OpenOk(fs[last.dir]) =>
                                (is_from_user(base_path) \/ ~IsSome(ParentDirectory(last.dir)))

\* C10: the discovery loop always terminates: every retry moves to the
\* strict parent, a search from depth d makes at most d + 1 open attempts,
\* opens no directory twice, stops at the first successful open, and ends
\* with Ok(Some), Ok(None) or CannotReadFile once there is no parent
\* directory to retry from.
C10_Terminates == []C10_Safety /\ ((load_pc = "loop") ~> (load_pc = "done"))

C10_Witness ==
    /\ load_pc = "done"
    /\ Start = 3
    /\ Len(opened) = 2
    /\ fs[3] = "NotFound"
    /\ fs[2] = "File"
    /\ fs[1] = "File"
    /\ load_result = LoadOkSome(Join(2, config_name), TRUE)

(***************************************************************************)
(* Properties of the CLI override merger                                   *)
(***************************************************************************)
\* The record a write goes to: the one that is there, or the default that
\* is created in its place.
FormatterOf(config) ==
    IF IsSome(config.formatter) THEN config.formatter.value ELSE DefaultFormatterConfiguration

JavascriptFormatterOf(config) ==
    IF IsSome(config.javascript) /\ IsSome(config.javascript.value.formatter)
    THEN config.javascript.value.formatter.value
    ELSE DefaultJavascriptFormatter

\* The setting a flag of apply_format_settings_from_cli belongs to.
SettingOf(config, flag) ==
    CASE flag = "--indent-size" -> FormatterOf(config).indent_size
      [] flag = "--indent-style" -> FormatterOf(config).indent_style
      [] flag = "--line-width" -> FormatterOf(config).line_width
      [] flag = "--quote-properties" -> JavascriptFormatterOf(config).quote_properties
      [] flag = "--quote-style" -> JavascriptFormatterOf(config).quote_style
      [] flag = "--trailing-comma" -> JavascriptFormatterOf(config).trailing_comma
      [] flag = "--semicolons" -> JavascriptFormatterOf(config).semicolons

Absent(flag) == argv[flag] = None

\* The three formatter flags parsed, so the match on indent_style ran.
FormatterBlockWritten ==
    /\ cli_pc = "format"
    /\ ~(cli_result.tag = "Err"
         /\ cli_result.flag \in {"--indent-size", "--indent-style", "--line-width"})

\* C5: indentation precedence, for every prior formatter state: with
\* --indent-style space and --indent-size n the style is Space and the size
\* n; with --indent-style space alone the size is the width embedded in the
\* style value; with --indent-size n alone both the style and the size are
\* what they were before.
C5_IndentPrecedence ==
    FormatterBlockWritten =>
        /\ IsSome(configuration.formatter)
        /\ \A n \in 1..MaxIndentSize :
              (argv["--indent-style"] = Some("space") /\ argv["--indent-size"] = Some(Decimal[n]))
                  => /\ configuration.formatter.value.indent_style = "Space"
                     /\ configuration.formatter.value.indent_size = n
        /\ (argv["--indent-style"] = Some("space") /\ Absent("--indent-size"))
              => /\ configuration.formatter.value.indent_style = "Space"
                 /\ configuration.formatter.value.indent_size = DefaultSpaces
        /\ (Absent("--indent-style") /\ ~Absent("--indent-size"))
              => /\ configuration.formatter.value.indent_style
                        = FormatterOf(prior_configuration).indent_style
                 /\ configuration.formatter.value.indent_size
                        = FormatterOf(prior_configuration).indent_size

C5_Witness ==
    /\ cli_pc = "format"
    /\ cli_result = OkUnit
    /\ argv["--indent-style"] = Some("space")
    /\ argv["--indent-size"] = Some("4")
    /\ prior_configuration.formatter = Some([indent_style |-> "Space", indent_size |-> 8, line_width |-> 100])
    /\ configuration.formatter = Some([indent_style |-> "Space", indent_size |-> 4, line_width |-> 100])

\* C6 (as stated): a run of either function in which no recognized flag is
\* supplied leaves the Configuration equal to what it was before the run.
C6_Original_NoFlagNoChange ==
    (cli_pc \in {"format", "files"} /\ \A f \in Flags : Absent(f))
        => configuration = prior_configuration

\* The configuration with its missing formatter, javascript and
\* javascript.formatter records replaced by their defaults.
WithFormatRecords(config) ==
    [config EXCEPT
        !.formatter = Some(FormatterOf(config)),
        !.javascript = Some([formatter |-> Some(JavascriptFormatterOf(config))])]

\* C6 (amended): an absent flag leaves the value of its setting untouched
\* (the value of the record that was there, or of the default created in
\* its place), except that the indent size is overwritten by the width
\* embedded in --indent-style space; files is created only when
\* --files-max-size is written, whereas formatter, javascript and
\* javascript.formatter are created with their defaults by every run of
\* apply_format_settings_from_cli that succeeds, flags or no flags. So a
\* run with no recognized flag leaves the Configuration unchanged for
\* apply_files_settings_from_cli, and for apply_format_settings_from_cli
\* unchanged but for the missing records now holding their defaults.
C6_AbsentFlagsKeepValues ==
    /\ (cli_pc = "format" /\ cli_result = OkUnit) =>
          /\ \A i \in 1..Len(FormatFlags) :
                (/\ Absent(FormatFlags[i])
                 /\ ~(FormatFlags[i] = "--indent-size" /\ argv["--indent-style"] = Some("space")))
                    => SettingOf(configuration, FormatFlags[i])
                           = SettingOf(prior_configuration, FormatFlags[i])
          /\ IsSome(configuration.formatter)
          /\ IsSome(configuration.javascript)
          /\ IsSome(configuration.javascript.value.formatter)
          /\ configuration.files = prior_configuration.files
          /\ configuration.schema = prior_configuration.schema
          /\ (\A i \in 1..Len(FormatFlags) : Absent(FormatFlags[i]))
                => configuration = WithFormatRecords(prior_configuration)
    /\ cli_pc = "format" =>
          /\ configuration.files = prior_configuration.files
          /\ configuration.schema = prior_configuration.schema
    /\ cli_pc = "files" =>
          /\ Absent("--files-max-size") =>
                configuration = prior_configuration /\ cli_result = OkUnit
          /\ cli_result = OkUnit =>
                /\ configuration.formatter = prior_configuration.formatter
                /\ configuration.javascript = prior_configuration.javascript
                /\ configuration.schema = prior_configuration.schema
          /\ (cli_result = OkUnit /\ ~Absent("--files-max-size")) =>
                /\ IsSome(configuration.files)
                /\ configuration.files.value.ignore =
                      (IF IsSome(prior_configuration.files)
                       THEN prior_configuration.files.value.ignore
                       ELSE DefaultFilesConfiguration.ignore)

C6_Witness ==
    /\ cli_pc = "format"
    /\ cli_result = OkUnit
    /\ \A f \in Flags : Absent(f)
    /\ prior_configuration.formatter = None
    /\ prior_configuration.javascript = None
    /\ configuration.formatter = Some(DefaultFormatterConfiguration)
    /\ configuration.javascript = Some([formatter |-> Some(DefaultJavascriptFormatter)])
    /\ configuration # prior_configuration

\* The text given for the flag does not parse as the flag's type.
Malformed(flag) ==
    /\ IsSome(argv[flag])
    /\ (CASE flag = "--indent-size" -> ParseIndentSize(argv[flag].value)
          [] flag = "--indent-style" -> ParseIndentStyle(argv[flag].value)
          [] flag = "--line-width" -> ParseLineWidth(argv[flag].value)
          [] flag = "--quote-properties" -> ParseQuoteProperties(argv[flag].value)
          [] flag = "--quote-style" -> ParseQuoteStyle(argv[flag].value)
          [] flag = "--trailing-comma" -> ParseTrailingComma(argv[flag].value)
          [] flag = "--semicolons" -> ParseSemicolons(argv[flag].value)
          [] flag = "--files-max-size" -> ParseNonZeroU64(argv[flag].value)) = ParseFailed

\* C7: when the value of a recognized flag does not parse, the merger
\* returns a parse error naming the first malformed flag of the consumption
\* order and does not go past it: no later flag is taken from the argument
\* stream and no setting of a later flag is written.
C7_StopsAtFirstMalformedFlag ==
    /\ cli_pc = "format" =>
          \A k \in 1..Len(FormatFlags) :
              (Malformed(FormatFlags[k]) /\ \A i \in 1..(k - 1) : ~Malformed(FormatFlags[i]))
                  => /\ cli_result = parse_error(FormatFlags[k])
                     /\ \A j \in k..Len(FormatFlags) :
                           /\ args[FormatFlags[j]] = argv[FormatFlags[j]]
                           /\ SettingOf(configuration, FormatFlags[j])
                                  = SettingOf(prior_configuration, FormatFlags[j])
                     /\ args["--files-max-size"] = argv["--files-max-size"]
                     /\ configuration.javascript = prior_configuration.javascript
    /\ (cli_pc = "format" /\ \A i \in 1..Len(FormatFlags) : ~Malformed(FormatFlags[i]))
          => cli_result = OkUnit
    /\ cli_pc = "files" =>
          IF Malformed("--files-max-size")
          THEN /\ cli_result = parse_error("--files-max-size")
               /\ args = argv
               /\ configuration = prior_configuration
          ELSE cli_result = OkUnit

C7_Witness ==
    /\ cli_pc = "format"
    /\ argv["--indent-size"] = Some("4")
    /\ argv["--indent-style"] = Some("space")
    /\ argv["--line-width"] = Some("bogus")
    /\ argv["--quote-style"] = Some("bogus")
    /\ argv["--trailing-comma"] = Some("es5")
    /\ cli_result = parse_error("--line-width")
    /\ args["--indent-size"] = None
    /\ args["--quote-style"] = Some("bogus")
    /\ args["--trailing-comma"] = Some("es5")
    /\ prior_configuration.formatter = Some([indent_style |-> "Space", indent_size |-> 8, line_width |-> 100])
    /\ configuration = prior_configuration

(***************************************************************************)
(* Properties of create_config                                             *)
(***************************************************************************)
\* C8: create_config called when a file exists at the configuration-file-name
\* path returns the AlreadyExists configuration error, which is not
\* CannotReadFile, and leaves the file as it was, after any sequence of
\* earlier calls.
C8_ExistingFileUntouched ==
    [][config_file.exists =>
          /\ config_file' = config_file
          /\ create_result' = ConfigurationError("AlreadyExists")
          /\ create_result' # cant_read_file(config_name)]_vars

C8_Witness ==
    /\ create_result = ConfigurationError("AlreadyExists")
    /\ config_file.exists
    /\ config_file.content.bytes = "code"
    /\ config_file.content.document.formatter = Missing
    /\ IsSome(create_configuration.formatter)
    /\ schema_installed

(***************************************************************************)
(* Properties of the ordered-set codec                                     *)
(***************************************************************************)
\* C9: serializing a FilesConfiguration and deserializing the result gives
\* back the ignore field: a set with the same members in the same insertion
\* order, None for None, and the empty set (not None) for the empty set.
C9_IgnoreRoundTrip ==
    codec_pc = "round_trip" =>
        /\ deserialized.tag = "Ok"
        /\ deserialized.value.ignore = files_configuration.ignore
        /\ IsSome(files_configuration.ignore) =>
              /\ wire.ignore.present
              /\ deserialize_set_of_strings(serialize_set_of_strings(files_configuration.ignore))
                     = Ok(files_configuration.ignore)

C9_Witness ==
    /\ codec_pc = "round_trip"
    /\ files_configuration.ignore = Some(<<"node_modules", "*.min.js", "dist">>)
    /\ wire.ignore = Present(JArray(<<"node_modules", "*.min.js", "dist">>))
    /\ deserialized = Ok(files_configuration)

====
